---- MODULE Spec2Model ----
(***************************************************************************)
(* Report lifecycle and photo storage of the NCKU campus safety reporting  *)
(* backend.  Two server programs are modelled: server.js (local disk or    *)
(* Google Cloud Storage, selected by GCS_BUCKET_NAME) and the local-only   *)
(* server kept in public/script.js (lines 1007-1333), which relocates a    *)
(* photo when the type of its report changes.                              *)
(*                                                                         *)
(* Strings that the code inspects character by character (the report type  *)
(* and the folder derived from it) are sequences of one-character strings. *)
(* A stored file is a pair folder/name below uploads/; a generated name is *)
(* the pair <<second of the clock, original name>>.                        *)
(***************************************************************************)
EXTENDS Integers, Sequences, FiniteSets, TLC

\* Number of report ids the database hands out.
MaxReports == 2
\* Last second of the wall clock.
MaxTime == 1
\* Number of HTTP requests handled in one behaviour.
MaxOps == 2

----------------------------------------------------------------------------
\* Strings

Road == <<"R","o","a","d">>
AccessibleRamp == <<"A","c","c","e","s","s","i","b","l","e"," ","R","a","m","p">>
StreetLight == <<"S","t","r","e","e","t"," ","L","i","g","h","t">>
Other == <<"O","t","h","e","r">>
\* a custom type typed into the "Other" text box
PotHole == <<"P","o","t"," ","H","o","l","e">>
\* a canonical name in different letter case
roadLower == <<"r","o","a","d">>
EmptyString == <<>>
\* the JavaScript value of a form field that was not sent
undefined == <<"undefined">>

UpperCase == <<"A","B","C","D","E","F","G","H","I","J","K","L","M",
               "N","O","P","Q","R","S","T","U","V","W","X","Y","Z">>
LowerCase == <<"a","b","c","d","e","f","g","h","i","j","k","l","m",
               "n","o","p","q","r","s","t","u","v","w","x","y","z">>

\* String.prototype.toLowerCase, one character
toLowerChar(c) ==
    IF \E i \in 1..26 : UpperCase[i] = c
    THEN LowerCase[CHOOSE i \in 1..26 : UpperCase[i] = c]
    ELSE c

toLowerCase(s) == [i \in 1..Len(s) |-> toLowerChar(s[i])]

\* s.replace(/ /g, '_')
replaceSpaces(s) == [i \in 1..Len(s) |-> IF s[i] = " " THEN "_" ELSE s[i]]

\* JavaScript truthiness of a form field: undefined and '' are falsy
Truthy(s) == s # undefined /\ s # EmptyString

\* a || b
OrElse(a, b) == IF Truthy(a) THEN a ELSE b

standardTypes == {Road, AccessibleRamp, StreetLight}

\* Every shape of type value: canonical, "Other", custom text, a canonical
\* name in another letter case, empty, absent
AllTypes == {Road, AccessibleRamp, StreetLight, Other, PotHole, roadLower,
             EmptyString, undefined}

\* The type values the requests of Spec carry
TypeInputs == {Road, StreetLight, Other, PotHole, undefined}

\* Original names of uploaded files
OrigNames == {"a.jpg"}
\* a file that is no image
OtherNames == {"a.pdf"}
NoFile == "-"
Uploads == OrigNames \cup OtherNames \cup {NoFile}

----------------------------------------------------------------------------
\* Folder derivation, once per code path

\* destination with the standardTypes test left out, as uploadToGCS has it
destinationOfAnyType(bodyType) ==
    IF Truthy(bodyType)
    THEN replaceSpaces(toLowerCase(bodyType))
    ELSE Other

\* multer diskStorage destination: typeDir
destination(bodyType) ==
    IF Truthy(bodyType) /\ bodyType \in standardTypes
    THEN replaceSpaces(toLowerCase(bodyType))
    ELSE Other

\* uploadToGCS: folderName
uploadToGCSFolder(typeDir) ==
    IF Truthy(typeDir)
    THEN replaceSpaces(toLowerCase(typeDir))
    ELSE Other

\* local-only PUT: newTypeDir
newTypeDir(bodyType) ==
    IF bodyType \in standardTypes
    THEN replaceSpaces(toLowerCase(bodyType))
    ELSE Other

filenameFresh(sec, orig) == <<sec + 1, orig>>

\* multer diskStorage filename / uploadToGCS filename
filename(sec, orig) == <<sec, orig>>

----------------------------------------------------------------------------
\* State

VARIABLES
    variant,    \* which server program runs: "server.js" or "script.js"
    gcs,        \* process.env.GCS_BUCKET_NAME is set
    db,         \* the Report collection, by id: type and photo
    fields,     \* the other fields of each report, by id
    nextId,     \* the next _id the database assigns
    files,      \* the files below uploads/ on the local disk
    objects,    \* the objects below uploads/ in the bucket
    now,        \* the wall clock, in seconds
    ops,        \* requests handled so far
    body,       \* the other form fields of the last request
    sent,       \* the report in the body of the last response, if any
    req,        \* the last request handled, with the report findById gave it
    res,        \* the status of its response
    io,         \* the file and bucket operations it performed
    client,     \* the page in the browser: the globals of public/script.js
    inflight    \* the requests whose handlers are between two awaits

vars == <<variant, gcs, db, fields, nextId, files, objects, now, ops, body, sent, req, res, io, client, inflight>>

Ids == 1..MaxReports

\* req.params.id that is no ObjectId, e.g. /reports/abc: findById rejects it
\* with a CastError
MalformedId == 0
isObjectId(id) == id \in Ids

Path(folder, name) == [folder |-> folder, name |-> name]

\* report.photo: absent, "/uploads/<folder>/<name>", or
\* "https://storage.googleapis.com/<bucket>/uploads/<folder>/<name>?..."
NoPhoto == [kind |-> "none", folder |-> <<>>, name |-> <<>>]
LocalPhoto(p) == [kind |-> "local", folder |-> p.folder, name |-> p.name]
CloudPhoto(k) == [kind |-> "cloud", folder |-> k.folder, name |-> k.name]

\* path.join(__dirname, report.photo) / the object key parsed from the URL
PathOf(photo) == Path(photo.folder, photo.name)

\* report.photo && report.photo !== ''
HasPhoto(report) == report.photo.kind # "none"

NoReport == [exists |-> FALSE, type |-> undefined, photo |-> NoPhoto]
Report(type, photo) == [exists |-> TRUE, type |-> type, photo |-> photo]

IoOp(op, at, ok) == [op |-> op, at |-> at, ok |-> ok]

\* The calls that can fail while a request is handled
Faults == {"findById", "save", "findByIdAndDelete", "uploadToGCS", "gcsDelete",
           "unlink", "rename", "copyFile"}

\* A request: its inputs, the calls that fail while it is handled, and the
\* report findById gave the handler
NoRequest == [op |-> "none", id |-> 0, type |-> undefined, file |-> NoFile,
              faults |-> {}, found |-> NoReport]
Request(op, id, type, file, faults, found) ==
    [op |-> op, id |-> id, type |-> type, file |-> file, faults |-> faults,
     found |-> found]

\* The other form fields of a request, each a string or undefined
Body(lat, lng, time, status, description, urgency) ==
    [lat |-> lat, lng |-> lng, time |-> time, status |-> status,
     description |-> description, urgency |-> urgency]
NoBody == Body(undefined, undefined, undefined, undefined, undefined, undefined)

Pending == <<"P","e","n","d","i","n","g">>
Fixed == <<"F","i","x","e","d">>
High == <<"H","i","g","h">>
Low == <<"L","o","w">>

\* what the client's form sends for a new report
DefaultBody == Body(<<"2","2">>, <<"1","2","0">>, <<"5">>, Pending, undefined, High)

\* A Number or a Date of the schema; nan is NaN or Invalid Date
NaN == [nan |-> TRUE, value |-> 0]
Num(n) == [nan |-> FALSE, value |-> n]

Digits == <<"0","1","2","3","4","5","6","7","8","9">>
isDigit(c) == \E d \in 1..10 : Digits[d] = c
digitValue(c) == (CHOOSE d \in 1..10 : Digits[d] = c) - 1

RECURSIVE leadingDigits(_, _)
leadingDigits(s, acc) ==
    IF s = <<>> \/ ~isDigit(Head(s)) THEN acc
    ELSE leadingDigits(Tail(s), 10 * acc + digitValue(Head(s)))

\* parseFloat(s): the number the string starts with, NaN if it starts with
\* none; parseFloat(undefined) is NaN
parseFloat(s) ==
    IF s = <<>> \/ ~isDigit(Head(s)) THEN NaN ELSE Num(leadingDigits(s, 0))

\* new Date(s) of a time string: Invalid Date unless the whole string parses
newDate(s) ==
    IF s # <<>> /\ \A i \in 1..Len(s) : isDigit(s[i])
    THEN Num(leadingDigits(s, 0)) ELSE NaN

\* the fields of a report that was never stored
NoFields ==
    [lat |-> NaN, lng |-> NaN, time |-> NaN, status |-> undefined,
     description |-> undefined, urgency |-> undefined]

\* POST /reports: reportData, but for type and photo
postFields(b) ==
    [lat |-> parseFloat(b.lat),
     lng |-> parseFloat(b.lng),
     time |-> IF Truthy(b.time) THEN newDate(b.time) ELSE Num(now),
     status |-> OrElse(b.status, Pending),
     description |-> OrElse(b.description, EmptyString),
     urgency |-> b.urgency]

\* putFields that assigns every field of the body, sent or not
putFieldsAssigned(report, b) ==
    [lat |-> report.lat,
     lng |-> report.lng,
     time |-> newDate(b.time),
     status |-> b.status,
     description |-> b.description,
     urgency |-> b.urgency]

\* PUT /reports/:id: "Update report data", but for type
putFields(report, b) ==
    [lat |-> report.lat,
     lng |-> report.lng,
     time |-> IF Truthy(b.time) THEN newDate(b.time) ELSE report.time,
     status |-> OrElse(b.status, report.status),
     description |-> OrElse(b.description, report.description),
     urgency |-> OrElse(b.urgency, report.urgency)]

\* report.save() rejects the document: the schema casts lat and lng to
\* Number and time to Date, and NaN and Invalid Date fail the cast
castFails(f) == f.lat.nan \/ f.lng.nan \/ f.time.nan

\* The map is a grid of points lat, lng in 0..GridMax
GridMax == 3
LatLng(lat, lng) == [lat |-> lat, lng |-> lng]
Points == {LatLng(lat, lng) : lat \in 0..GridMax, lng \in 0..GridMax}

\* ncku_campus_region.geojson: features[0].geometry, a polygon whose ring is
\* a rectangle of [lng, lat] positions
CampusPolygon ==
    [type |-> "Polygon",
     coordinates |-> << <<1, 0>>, <<GridMax, 0>>, <<GridMax, 2>>, <<1, 2>>, <<1, 0>> >>]
\* var geoJsonPolygon before the boundary was stored
NoPolygon == [type |-> "undefined", coordinates |-> <<>>]

Min(S) == CHOOSE x \in S : \A y \in S : x <= y
Max(S) == CHOOSE x \in S : \A y \in S : x >= y

\* turf.booleanPointInPolygon(point, polygon) for a ring that is a rectangle
\* with sides along the axes; a point on the boundary is inside
booleanPointInPolygon(point, ring) ==
    LET xs == {ring[i][1] : i \in 1..Len(ring)}
        ys == {ring[i][2] : i \in 1..Len(ring)}
    IN  /\ Min(xs) <= point[1] /\ point[1] <= Max(xs)
        /\ Min(ys) <= point[2] /\ point[2] <= Max(ys)

\* isPointInPolygon with turf.point([lat, lng])
isPointInPolygonSwapped(polygon, lat, lng) ==
    IF polygon = NoPolygon \/ polygon.coordinates = <<>> THEN FALSE
    ELSE booleanPointInPolygon(<<lat, lng>>, polygon.coordinates)

\* isPointInPolygon(lat, lng), reading the global geoJsonPolygon
isPointInPolygon(polygon, lat, lng) ==
    IF polygon = NoPolygon \/ polygon.coordinates = <<>> THEN FALSE
    ELSE booleanPointInPolygon(<<lng, lat>>, polygon.coordinates)

\* no popup with the new-report form is open; nothing was posted
NoPoint == LatLng(-1, -1)

\* the page once script.js was evaluated, before DOMContentLoaded: the
\* globals, the style of #loadingOverlay (display as the stylesheet has it),
\* the pending 500 ms timers of hideLoadingOverlay, and what the page waits
\* for: the map's view, geolocation and its 5 s timer, the fetches of the
\* boundary and of the reports, the 15 s timer
PageLoaded ==
    [geoJsonPolygon |-> NoPolygon,
     boundary |-> "idle",
     clicked |-> NoPoint,
     popup |-> NoPoint,
     alert |-> "",
     posted |-> NoPoint,
     started |-> FALSE,
     mapLoaded |-> FALSE,
     dataLoaded |-> FALSE,
     display |-> "unset",
     opacity |-> "1",
     hideTimers |-> 0,
     view |-> FALSE,
     geolocation |-> "idle",
     locationTimeout |-> "idle",
     reports |-> "idle",
     fallback |-> "idle"]

\* Requests handled step by step: a handler runs from one await to the next
\* without interruption, and other handlers run while it waits
Handlers == {1, 2}

\* a handler's locals: op and id of its request, the body's type and other
\* fields, the document findById gave it, the document as it stands when the
\* handler saves, the ranks of its read and of its write among the database
\* operations of all handlers, and the status of its response
Handler(pc, op, id, type, b, doc, docFields, report, reportFields, findAt, saveAt, status) ==
    [pc |-> pc, op |-> op, id |-> id, type |-> type, body |-> b,
     doc |-> doc, docFields |-> docFields,
     report |-> report, reportFields |-> reportFields,
     findAt |-> findAt, saveAt |-> saveAt, status |-> status]
Idle == Handler("idle", "none", 0, undefined, NoBody, NoReport, NoFields, NoReport, NoFields, 0, 0, 0)

Init ==
    /\ variant \in {"server.js", "script.js"}
    /\ gcs \in BOOLEAN
    /\ (variant = "script.js" => gcs = FALSE)
    /\ db = [i \in Ids |-> NoReport]
    /\ nextId = 1
    /\ files = {}
    /\ objects = {}
    /\ now = 0
    /\ ops = 0
    /\ req = NoRequest
    /\ res = 0
    /\ io = {}
    /\ fields = [i \in Ids |-> NoFields]
    /\ body = NoBody
    /\ sent = NoReport
    /\ client = PageLoaded
    /\ inflight = [h \in Handlers |-> Idle]

----------------------------------------------------------------------------
\* Helpers of both servers

\* deleteFile that finds no file to unlink
deleteFileNever(fs, filePath, unlinkFails) == fs

\* deleteFile: unlink the file if it exists; an unlink error is logged only
deleteFile(fs, filePath, unlinkFails) ==
    IF filePath \in fs /\ ~unlinkFails THEN fs \ {filePath} ELSE fs

\* upload (multer, disk storage): the file is written before the handler runs
upload(fs, bodyType, file, sec) ==
    IF file = NoFile THEN fs
    ELSE fs \cup {Path(destination(bodyType), filename(sec, file))}

\* the operation a handler logs when it takes a branch
When(cond, entry) == IF cond THEN {entry} ELSE {}

\* what a handler hands back: the new stores, the status and the operations
Outcome(d, n, fs, os, status, log) ==
    [db |-> d, nextId |-> n, files |-> fs, objects |-> os,
     status |-> status, io |-> log]

----------------------------------------------------------------------------
\* server.js

\* uploadToGCS that resolves with the URL although the stream failed
uploadToGCSNeverRejects(cloud, gcsFails) == FALSE

\* await uploadToGCS(..) throws: the write stream reported an error and the
\* promise was rejected
uploadToGCSRejects(cloud, gcsFails) == cloud /\ gcsFails

\* postPhoto without the test of req.file
postPhotoUnguarded(file, useGcs, p, k) ==
    IF useGcs THEN CloudPhoto(k) ELSE LocalPhoto(p)

\* POST /reports: reportData.photo
postPhoto(file, useGcs, p, k) ==
    IF file = NoFile THEN NoPhoto
    ELSE IF useGcs THEN CloudPhoto(k)
    ELSE LocalPhoto(p)

\* app.post('/reports'): saveFails = report.save() rejects,
\* gcsFails = the write stream to the bucket reports an error
appPost(type, file, saveFails, gcsFails) ==
    LET p == Path(destination(type), filename(now, file))
        k == Path(uploadToGCSFolder(type), filename(now, file))
        disk == file # NoFile /\ ~gcs
        cloud == file # NoFile /\ gcs
        files1 == IF disk THEN upload(files, type, file, now) ELSE files
        objects1 == IF cloud /\ ~gcsFails THEN objects \cup {k} ELSE objects
        log == When(disk, IoOp("writeFile", p, TRUE))
               \cup When(cloud, IoOp("gcsWrite", k, ~gcsFails))
        report == Report(type, postPhoto(file, gcs, p, k))
    IN  IF uploadToGCSRejects(cloud, gcsFails) \/ saveFails
        THEN Outcome(db, nextId, files1, objects1, 500, log)
        ELSE Outcome([db EXCEPT ![nextId] = report], nextId + 1,
                     files1, objects1, 201, log)

\* putPhoto that rewrites the reference to the folder of the new type
putPhotoRekeyed(report, file, useGcs, p, k) ==
    IF file = NoFile
    THEN IF HasPhoto(report) THEN [report.photo EXCEPT !.folder = k.folder]
         ELSE report.photo
    ELSE IF useGcs THEN CloudPhoto(k)
    ELSE LocalPhoto(p)

\* PUT /reports/:id: report.photo after "Handle photo updates"
putPhoto(report, file, useGcs, p, k) ==
    IF file = NoFile THEN report.photo
    ELSE IF useGcs THEN CloudPhoto(k)
    ELSE LocalPhoto(p)

\* app.put('/reports/:id'): findFails = findById rejects
appPut(id, type, file, findFails, saveFails, gcsFails, unlinkFails) ==
    LET report == db[id]
        p == Path(destination(type), filename(now, file))
        disk == file # NoFile /\ ~gcs
        cloud == file # NoFile /\ gcs
        files1 == IF disk THEN upload(files, type, file, now) ELSE files
        newType == OrElse(type, report.type)
        k == Path(uploadToGCSFolder(newType), filename(now, file))
        objects1 == IF cloud /\ ~gcsFails THEN objects \cup {k} ELSE objects
        delOld == disk /\ HasPhoto(report) /\ report.photo.kind = "local"
        old == PathOf(report.photo)
        files2 == IF delOld THEN deleteFile(files1, old, unlinkFails) ELSE files1
        written == When(disk, IoOp("writeFile", p, TRUE))
        log == written
               \cup When(cloud, IoOp("gcsWrite", k, ~gcsFails))
               \cup When(delOld, IoOp("deleteFile", old, old \in files1 /\ ~unlinkFails))
        updated == Report(newType, putPhoto(report, file, gcs, p, k))
    IN  IF findFails THEN Outcome(db, nextId, files1, objects, 500, written)
        ELSE IF ~report.exists THEN Outcome(db, nextId, files1, objects, 404, written)
        ELSE IF uploadToGCSRejects(cloud, gcsFails)
             THEN Outcome(db, nextId, files1, objects1, 500, log)
        ELSE IF saveFails THEN Outcome(db, nextId, files2, objects1, 500, log)
        ELSE Outcome([db EXCEPT ![id] = updated], nextId, files2, objects1, 200, log)

\* DELETE /reports/:id: which store the photo is deleted from
deleteBackend(report, useGcs) ==
    IF ~HasPhoto(report) THEN "none"
    ELSE IF report.photo.kind = "local" THEN "local"
    ELSE IF useGcs /\ report.photo.kind = "cloud" THEN "cloud"
    ELSE "none"

\* deleteStatus without the try/catch around the photo deletion
deleteStatusStrict(photoDeleteFailed, dbDeleteFails) ==
    IF dbDeleteFails \/ photoDeleteFailed THEN 500 ELSE 200

\* DELETE /reports/:id: the status once the report was found
deleteStatus(photoDeleteFailed, dbDeleteFails) ==
    IF dbDeleteFails THEN 500 ELSE 200

\* app.delete('/reports/:id'): gcsDeleteFails = bucket.file(..).delete()
\* rejects, dbDeleteFails = findByIdAndDelete rejects
appDelete(id, findFails, unlinkFails, gcsDeleteFails, dbDeleteFails) ==
    LET report == db[id]
        backend == deleteBackend(report, gcs)
        target == PathOf(report.photo)
        fileGone == target \in files /\ ~unlinkFails
        objectGone == target \in objects /\ ~gcsDeleteFails
        files1 == IF backend = "local"
                  THEN deleteFile(files, target, unlinkFails) ELSE files
        objects1 == IF backend = "cloud" /\ objectGone
                    THEN objects \ {target} ELSE objects
        log == When(backend = "local", IoOp("deleteFile", target, fileGone))
               \cup When(backend = "cloud", IoOp("gcsDelete", target, objectGone))
        failed == (backend = "local" /\ ~fileGone) \/ (backend = "cloud" /\ ~objectGone)
        status == deleteStatus(failed, dbDeleteFails)
    IN  IF findFails THEN Outcome(db, nextId, files, objects, 500, {})
        ELSE IF ~report.exists THEN Outcome(db, nextId, files, objects, 404, {})
        ELSE IF status = 200
             THEN Outcome([db EXCEPT ![id] = NoReport], nextId, files1, objects1, 200, log)
             ELSE Outcome(db, nextId, files1, objects1, status, log)

\* Timeouts of server.js, in milliseconds
raceTimeoutMS == 25000
bufferTimeoutMS == 30000
serverSelectionTimeoutMS == 30000

\* How Report.find() settles: with the reports, or when the database cannot
\* be reached with one of these errors, `after` milliseconds
NoError == [name |-> "", message |-> "", after |-> 0]
raceTimeout == [name |-> "Error", message |-> "Database operation timed out", after |-> raceTimeoutMS]
noAnswer == [name |-> "MongoNetworkTimeoutError", message |-> "connection timed out", after |-> 45000]
bufferingTimeout == [name |-> "MongooseError", message |-> "Operation reports.find() buffering timed out after 30000ms", after |-> bufferTimeoutMS]
serverSelection == [name |-> "MongooseServerSelectionError", message |-> "connect ECONNREFUSED 127.0.0.1:27017", after |-> serverSelectionTimeoutMS]
networkError == [name |-> "MongoNetworkError", message |-> "connection 1 to 127.0.0.1:27017 closed", after |-> 0]

\* the way Report.find() settles, by the name of the failure
findError(fault) ==
    CASE fault = "noAnswer" -> noAnswer
      [] fault = "bufferingTimeout" -> bufferingTimeout
      [] fault = "serverSelection" -> serverSelection
      [] fault = "networkError" -> networkError
      [] OTHER -> NoError
FindFaults == {"noAnswer", "bufferingTimeout", "serverSelection", "networkError"}

\* Promise.race([dbPromise, timeoutPromise]): what the await ends with
race(settled) == IF settled.after >= raceTimeoutMS THEN raceTimeout ELSE settled

\* error.message.includes('buffering timed out')
includesBufferingTimedOut(error) == error.message = bufferingTimeout.message

\* GET /reports: the status of the catch block
getStatus(error) ==
    IF error.message = "Database operation timed out" THEN 503
    ELSE IF error.name = "MongooseError" /\ includesBufferingTimedOut(error) THEN 503
    ELSE 500

\* app.get('/reports')
appGet(settled) ==
    LET error == race(settled)
    IN  Outcome(db, nextId, files, objects, IF error = NoError THEN 200 ELSE getStatus(error), {})

----------------------------------------------------------------------------
\* The local-only server (public/script.js, lines 1007-1333)

\* typeChanged.  newTypeIsStandard is req.body.type && includes(..): for a
\* missing or empty type it is undefined or '', which !== any boolean.
typeChanged(oldType, bodyType) ==
    LET originalTypeIsStandard == oldType \in standardTypes
        newTypeIsStandard == bodyType \in standardTypes
    IN  IF ~Truthy(bodyType) THEN TRUE
        ELSE \/ originalTypeIsStandard # newTypeIsStandard
             \/ (originalTypeIsStandard /\ newTypeIsStandard /\ oldType # bodyType)

\* app.post('/reports')
localPost(type, file, saveFails) ==
    LET p == Path(destination(type), filename(now, file))
        files1 == upload(files, type, file, now)
        log == When(file # NoFile, IoOp("writeFile", p, TRUE))
        report == Report(type, IF file = NoFile THEN NoPhoto ELSE LocalPhoto(p))
    IN  IF saveFails
        THEN Outcome(db, nextId, files1, objects, 500, log)
        ELSE Outcome([db EXCEPT ![nextId] = report], nextId + 1,
                     files1, objects, 201, log)

oldPhotoExistsAlways(fs, oldPhotoPath) == TRUE

\* fs.existsSync(oldPhotoPath) guarding the move of the photo
oldPhotoExists(fs, oldPhotoPath) == oldPhotoPath \in fs

\* app.put('/reports/:id'): renameFails = renameSync throws,
\* copyFails = copyFileSync throws
localPut(id, type, file, findFails, saveFails, unlinkFails, renameFails, copyFails) ==
    LET report == db[id]
        p == Path(destination(type), filename(now, file))
        files1 == upload(files, type, file, now)
        written == When(file # NoFile, IoOp("writeFile", p, TRUE))
        changed == typeChanged(report.type, type)
        newType == OrElse(type, report.type)
        old == PathOf(report.photo)
        \* a new file: delete the old photo, point at the new one
        replace == file # NoFile
        delOld == replace /\ HasPhoto(report)
        \* no file: move the photo to the folder of the new type
        relocate == file = NoFile /\ changed /\ HasPhoto(report)
        new == Path(newTypeDir(type), old.name)
        moving == relocate /\ oldPhotoExists(files1, old)
        copying == moving /\ renameFails
        copied == copying /\ ~copyFails
        files2 == IF delOld THEN deleteFile(files1, old, unlinkFails)
                  ELSE IF moving /\ ~renameFails THEN (files1 \ {old}) \cup {new}
                  ELSE IF copied THEN deleteFile(files1 \cup {new}, old, unlinkFails)
                  ELSE files1
        log == written
               \cup When(delOld, IoOp("deleteFile", old, old \in files1 /\ ~unlinkFails))
               \cup When(moving, IoOp("rename", old, ~renameFails))
               \cup When(copying, IoOp("copyFile", old, ~copyFails))
               \cup When(copied, IoOp("deleteFile", old, ~unlinkFails))
        photo == IF replace THEN LocalPhoto(p)
                 ELSE IF moving THEN LocalPhoto(new)
                 ELSE report.photo
        updated == Report(newType, photo)
    IN  IF findFails THEN Outcome(db, nextId, files1, objects, 500, written)
        ELSE IF ~report.exists THEN Outcome(db, nextId, files1, objects, 404, written)
        ELSE IF copying /\ copyFails THEN Outcome(db, nextId, files1, objects, 500, log)
        ELSE IF saveFails THEN Outcome(db, nextId, files2, objects, 500, log)
        ELSE Outcome([db EXCEPT ![id] = updated], nextId, files2, objects, 200, log)

\* app.delete('/reports/:id')
localDelete(id, findFails, unlinkFails, dbDeleteFails) ==
    LET report == db[id]
        target == PathOf(report.photo)
        fileGone == target \in files /\ ~unlinkFails
        files1 == IF HasPhoto(report)
                  THEN deleteFile(files, target, unlinkFails) ELSE files
        log == When(HasPhoto(report), IoOp("deleteFile", target, fileGone))
    IN  IF findFails THEN Outcome(db, nextId, files, objects, 500, {})
        ELSE IF ~report.exists THEN Outcome(db, nextId, files, objects, 404, {})
        ELSE IF dbDeleteFails THEN Outcome(db, nextId, files1, objects, 500, log)
        ELSE Outcome([db EXCEPT ![id] = NoReport], nextId, files1, objects, 200, log)

\* app.get('/reports') of the local-only server
localGet(error) ==
    Outcome(db, nextId, files, objects, IF error = NoError THEN 200 ELSE 500, {})

----------------------------------------------------------------------------
\* Actions

\* the handler's outcome becomes the state; b is the request's other form
\* fields and newFields the other fields of the report the handler saves
Respond(request, b, newFields, out) ==
    LET saved == out.status \in {200, 201} /\ request.op \in {"POST", "PUT"}
        deleted == out.status = 200 /\ request.op = "DELETE"
    IN  /\ db' = out.db
        /\ fields' = IF saved THEN [fields EXCEPT ![request.id] = newFields]
                     ELSE IF deleted THEN [fields EXCEPT ![request.id] = NoFields]
                     ELSE fields
        /\ nextId' = out.nextId
        /\ files' = out.files
        /\ objects' = out.objects
        /\ res' = out.status
        /\ sent' = IF saved THEN out.db[request.id] ELSE NoReport
        /\ io' = out.io
        /\ req' = request
        /\ body' = b
        /\ ops' = ops + 1
        /\ UNCHANGED <<variant, gcs, now, client, inflight>>

\* file.mimetype as the client declares it
mimetype(file) ==
    IF file \in OrigNames THEN <<"image", "/", "jpeg">> ELSE <<"application", "/", "pdf">>

\* fileFilter: file.mimetype.startsWith('image/')
fileFilter(file) == SubSeq(mimetype(file), 1, 2) = <<"image", "/">>

\* upload(req, res, cb) calls back with an error: the filter rejected the
\* file
uploadError(file) == file # NoFile /\ ~fileFilter(file)

\* if (err) return res.status(500): nothing was stored, the handler's try
\* block never runs
uploadFailed == Outcome(db, nextId, files, objects, 500, {})

\* the report findById hands the handler
Found(id, faults) ==
    IF "findById" \in faults \/ ~isObjectId(id) THEN NoReport ELSE db[id]

\* Report.findById(req.params.id) rejects
findByIdRejects(id, faults) == "findById" \in faults \/ ~isObjectId(id)

\* The sets of calls that can fail while a request for this id with this file
\* is handled: none once the upload or the id is rejected, only the lookup
\* when it finds no report
failures(id, file, faultNames) ==
    IF uploadError(file) \/ ~isObjectId(id) THEN {{}}
    ELSE IF ~db[id].exists THEN SUBSET (faultNames \cap {"findById"})
    ELSE SUBSET faultNames

\* GET /reports; the database answers, or is unreachable in one of the ways
\* of FindFaults
Get ==
    /\ variant = "server.js"
    /\ ops < MaxOps
    /\ \E faults \in {{}} \cup {{f} : f \in FindFaults} :
        LET error == IF faults = {} THEN NoError ELSE findError(CHOOSE f \in faults : TRUE)
        IN  Respond(Request("GET", 0, undefined, NoFile, faults, NoReport),
                    NoBody, NoFields, appGet(error))

\* POST /reports of server.js with inputs from the given sets
PostOn(types, uploads, bodies, faultNames) ==
    /\ variant = "server.js"
    /\ ops < MaxOps
    /\ nextId \in Ids
    /\ \E type \in types, file \in uploads, b \in bodies :
       \E faults \in (IF uploadError(file) THEN {{}} ELSE SUBSET faultNames) :
        /\ "uploadToGCS" \in faults => (gcs /\ file # NoFile /\ "save" \notin faults)
        /\ Respond(Request("POST", nextId, type, file, faults, NoReport),
                   b, postFields(b),
                   IF uploadError(file) THEN uploadFailed
                   ELSE appPost(type, file,
                                "save" \in faults \/ castFails(postFields(b)),
                                "uploadToGCS" \in faults))

\* PUT /reports/:id of server.js with inputs from the given sets
PutOn(ids, types, uploads, bodies, faultNames) ==
    /\ variant = "server.js"
    /\ ops < MaxOps
    /\ \E id \in ids, type \in types, file \in uploads, b \in bodies :
       \E faults \in failures(id, file, faultNames) :
        /\ "findById" \in faults => faults = {"findById"}
        /\ "uploadToGCS" \in faults => (gcs /\ file # NoFile /\ "save" \notin faults)
        /\ "unlink" \in faults =>
                /\ ~gcs /\ file # NoFile /\ db[id].photo.kind = "local"
                /\ PathOf(db[id].photo) \in upload(files, type, file, now)
        /\ LET found == Found(id, faults)
               newFields == IF found.exists THEN putFields(fields[id], b) ELSE NoFields
           IN  Respond(Request("PUT", id, type, file, faults, found),
                       b, newFields,
                       IF uploadError(file) THEN uploadFailed
                       ELSE appPut(id, type, file, findByIdRejects(id, faults),
                                   "save" \in faults \/ castFails(newFields),
                                   "uploadToGCS" \in faults, "unlink" \in faults))

Post == PostOn(TypeInputs, Uploads, {DefaultBody}, {"save", "uploadToGCS"})

Put ==
    PutOn(Ids \cup {MalformedId}, TypeInputs, Uploads, {NoBody},
          {"findById", "save", "uploadToGCS", "unlink"})

Delete ==
    /\ variant = "server.js"
    /\ ops < MaxOps
    /\ \E id \in Ids \cup {MalformedId} :
       \E faults \in failures(id, NoFile, {"findById", "findByIdAndDelete",
                                           "gcsDelete", "unlink"}) :
        /\ "findById" \in faults => faults = {"findById"}
        /\ "unlink" \in faults =>
                /\ deleteBackend(db[id], gcs) = "local"
                /\ PathOf(db[id].photo) \in files
        /\ "gcsDelete" \in faults =>
                /\ deleteBackend(db[id], gcs) = "cloud"
                /\ PathOf(db[id].photo) \in objects
        /\ Respond(Request("DELETE", id, undefined, NoFile, faults, Found(id, faults)),
                   NoBody, NoFields,
                   appDelete(id, findByIdRejects(id, faults), "unlink" \in faults,
                             "gcsDelete" \in faults, "findByIdAndDelete" \in faults))

LocalGet ==
    /\ variant = "script.js"
    /\ ops < MaxOps
    /\ \E faults \in {{}} \cup {{f} : f \in FindFaults} :
        LET error == IF faults = {} THEN NoError ELSE findError(CHOOSE f \in faults : TRUE)
        IN  Respond(Request("GET", 0, undefined, NoFile, faults, NoReport),
                    NoBody, NoFields, localGet(error))

\* POST /reports of the local-only server with inputs from the given sets
LocalPostOn(types, uploads, bodies, faultNames) ==
    /\ variant = "script.js"
    /\ ops < MaxOps
    /\ nextId \in Ids
    /\ \E type \in types, file \in uploads, b \in bodies :
       \E faults \in (IF uploadError(file) THEN {{}} ELSE SUBSET faultNames) :
        /\ Respond(Request("POST", nextId, type, file, faults, NoReport),
                   b, postFields(b),
                   IF uploadError(file) THEN uploadFailed
                   ELSE localPost(type, file,
                                  "save" \in faults \/ castFails(postFields(b))))

\* PUT /reports/:id of the local-only server with inputs from the given sets
LocalPutOn(ids, types, uploads, bodies, faultNames) ==
    /\ variant = "script.js"
    /\ ops < MaxOps
    /\ \E id \in ids, type \in types, file \in uploads, b \in bodies :
       \E faults \in failures(id, file, faultNames) :
        LET report == db[id]
            old == PathOf(report.photo)
            moving == /\ file = NoFile /\ HasPhoto(report) /\ old \in files
                      /\ typeChanged(report.type, type)
            unlinking == \/ /\ file # NoFile /\ HasPhoto(report)
                            /\ old \in upload(files, type, file, now)
                         \/ /\ moving /\ "rename" \in faults
                            /\ "copyFile" \notin faults
            found == Found(id, faults)
            newFields == IF found.exists THEN putFields(fields[id], b) ELSE NoFields
        IN  /\ "findById" \in faults => faults = {"findById"}
            \* renaming a file onto itself succeeds
            /\ "rename" \in faults =>
                    (moving /\ Path(newTypeDir(type), old.name) # old)
            /\ "copyFile" \in faults => ("rename" \in faults /\ "save" \notin faults)
            /\ "unlink" \in faults => unlinking
            /\ Respond(Request("PUT", id, type, file, faults, found),
                       b, newFields,
                       IF uploadError(file) THEN uploadFailed
                       ELSE localPut(id, type, file, findByIdRejects(id, faults),
                                     "save" \in faults \/ castFails(newFields),
                                     "unlink" \in faults,
                                     "rename" \in faults, "copyFile" \in faults))

LocalPost == LocalPostOn(TypeInputs, Uploads, {DefaultBody}, {"save"})

LocalPut ==
    LocalPutOn(Ids \cup {MalformedId}, TypeInputs, Uploads, {NoBody},
               {"findById", "save", "unlink", "rename", "copyFile"})

LocalDelete ==
    /\ variant = "script.js"
    /\ ops < MaxOps
    /\ \E id \in Ids \cup {MalformedId} :
       \E faults \in failures(id, NoFile, {"findById", "findByIdAndDelete", "unlink"}) :
        /\ "findById" \in faults => faults = {"findById"}
        /\ "unlink" \in faults =>
                (HasPhoto(db[id]) /\ PathOf(db[id].photo) \in files)
        /\ Respond(Request("DELETE", id, undefined, NoFile, faults, Found(id, faults)),
                   NoBody, NoFields,
                   localDelete(id, findByIdRejects(id, faults), "unlink" \in faults,
                               "findByIdAndDelete" \in faults))

\* a second passes
Tick ==
    /\ now < MaxTime
    /\ now' = now + 1
    /\ UNCHANGED <<variant, gcs, db, fields, nextId, files, objects, ops, body, sent, req, res, io, client, inflight>>

\* server.js is restarted with GCS_BUCKET_NAME set or unset; the database,
\* the disk and the bucket outlive the process, the last request does not
Restart ==
    /\ variant = "server.js"
    /\ gcs' = ~gcs
    /\ req' = NoRequest
    /\ res' = 0
    /\ io' = {}
    /\ body' = NoBody
    /\ sent' = NoReport
    /\ UNCHANGED <<variant, db, fields, nextId, files, objects, now, ops, client, inflight>>

Next ==
    \/ Get \/ Post \/ Put \/ Delete
    \/ LocalGet \/ LocalPost \/ LocalPut \/ LocalDelete
    \/ Tick \/ Restart

Spec == Init /\ [][Next]_vars

----------------------------------------------------------------------------
\* Uploads with a disk that loses files: uploads/ is wiped or a file is
\* removed by hand while the database keeps the report

FileLost ==
    /\ \E f \in files : files' = files \ {f}
    /\ UNCHANGED <<variant, gcs, db, fields, nextId, objects, now, ops, body, sent, req, res, io, client, inflight>>

LossNext == Post \/ Put \/ LocalPost \/ LocalPut \/ FileLost

LossSpec == Init /\ [][LossNext]_vars

----------------------------------------------------------------------------
\* Requests in flight together on the local backend: PUT without a file and
\* DELETE, each split at its awaits (findById; save or findByIdAndDelete)

RaceInit == Init /\ ~gcs

\* the rank of the next database operation
nextRank ==
    1 + Cardinality({h \in Handlers : inflight[h].findAt > 0})
      + Cardinality({h \in Handlers : inflight[h].saveAt > 0})

RaceBodies ==
    {Body(undefined, undefined, undefined, status, undefined, undefined) :
        status \in {undefined, Fixed}}

\* the changes of a step of a handler leave the last whole request alone
RaceUnchanged == UNCHANGED <<variant, gcs, nextId, objects, now, ops, body, sent, req, res, io, client>>

\* save() of a loaded document sends the paths the handler changed, and
\* assigning a path its own value changes nothing
setModified(stored, loaded, assigned) ==
    [k \in DOMAIN stored |-> IF assigned[k] # loaded[k] THEN assigned[k] ELSE stored[k]]

\* the photo relocation of the local-only server for a PUT without a file
movePhoto(report, type, fs) ==
    LET old == PathOf(report.photo)
        new == Path(newTypeDir(type), old.name)
        moving == /\ variant = "script.js"
                  /\ typeChanged(report.type, type) /\ HasPhoto(report)
                  /\ oldPhotoExists(fs, old)
    IN  [files |-> IF moving THEN (fs \ {old}) \cup {new} ELSE fs,
         photo |-> IF moving THEN LocalPhoto(new) ELSE report.photo]

\* await Report.findById(req.params.id) of a PUT resolves
PutFind(h) ==
    /\ inflight[h].pc = "idle"
    /\ \E id \in Ids, type \in {undefined, Other}, b \in RaceBodies :
        inflight' = [inflight EXCEPT ![h] =
            Handler("found", "PUT", id, type, b, db[id], fields[id],
                    NoReport, NoFields, nextRank, 0, 0)]
    /\ UNCHANGED <<db, fields, files>>
    /\ RaceUnchanged

\* the PUT handler runs on to await report.save()
PutUpdate(h) ==
    LET r == inflight[h]
        moved == movePhoto(r.doc, r.type, files)
    IN  /\ r.pc = "found" /\ r.op = "PUT"
        /\ IF ~r.doc.exists
           THEN /\ inflight' = [inflight EXCEPT ![h].pc = "done", ![h].status = 404]
                /\ files' = files
           ELSE /\ inflight' = [inflight EXCEPT
                        ![h].pc = "saving",
                        ![h].report = Report(OrElse(r.type, r.doc.type), moved.photo),
                        ![h].reportFields = putFields(r.docFields, r.body)]
                /\ files' = moved.files
        /\ UNCHANGED <<db, fields>>
        /\ RaceUnchanged

\* report.save() resolves and the PUT responds; the update of a document
\* that was deleted meanwhile stores nothing, and save() rejects or not
PutSave(h) ==
    LET r == inflight[h]
    IN  /\ r.pc = "saving" /\ r.op = "PUT"
        /\ IF db[r.id].exists
           THEN /\ db' = [db EXCEPT ![r.id] = setModified(db[r.id], r.doc, r.report)]
                /\ fields' = [fields EXCEPT ![r.id] =
                                    setModified(fields[r.id], r.docFields, r.reportFields)]
                /\ inflight' = [inflight EXCEPT ![h].pc = "done", ![h].status = 200,
                                                ![h].saveAt = nextRank]
           ELSE /\ UNCHANGED <<db, fields>>
                /\ \E status \in {200, 500} :
                     inflight' = [inflight EXCEPT ![h].pc = "done", ![h].status = status,
                                                  ![h].saveAt = nextRank]
        /\ files' = files
        /\ RaceUnchanged

\* await Report.findById(req.params.id) of a DELETE resolves
DeleteFind(h) ==
    /\ inflight[h].pc = "idle"
    /\ \E id \in Ids :
        inflight' = [inflight EXCEPT ![h] =
            Handler("found", "DELETE", id, undefined, NoBody, db[id], fields[id],
                    NoReport, NoFields, nextRank, 0, 0)]
    /\ UNCHANGED <<db, fields, files>>
    /\ RaceUnchanged

\* the DELETE handler deletes the photo at the path it read and runs on to
\* await Report.findByIdAndDelete
DeleteUnlink(h) ==
    LET r == inflight[h]
    IN  /\ r.pc = "found" /\ r.op = "DELETE"
        /\ IF ~r.doc.exists
           THEN /\ inflight' = [inflight EXCEPT ![h].pc = "done", ![h].status = 404]
                /\ files' = files
           ELSE /\ inflight' = [inflight EXCEPT ![h].pc = "saving"]
                /\ files' = IF HasPhoto(r.doc)
                             THEN deleteFile(files, PathOf(r.doc.photo), FALSE)
                             ELSE files
        /\ UNCHANGED <<db, fields>>
        /\ RaceUnchanged

\* findByIdAndDelete resolves and the DELETE responds
DeleteRemove(h) ==
    LET r == inflight[h]
    IN  /\ r.pc = "saving" /\ r.op = "DELETE"
        /\ db' = [db EXCEPT ![r.id] = NoReport]
        /\ fields' = [fields EXCEPT ![r.id] = NoFields]
        /\ inflight' = [inflight EXCEPT ![h].pc = "done", ![h].status = 200,
                                        ![h].saveAt = nextRank]
        /\ files' = files
        /\ RaceUnchanged

\* the reports the handlers race on are posted before, one request at a time
RacePost ==
    /\ \A h \in Handlers : inflight[h].pc = "idle"
    /\ \/ PostOn({Road}, Uploads, {DefaultBody}, {})
       \/ LocalPostOn({Road}, Uploads, {DefaultBody}, {})

RaceNext ==
    \/ RacePost
    \/ \E h \in Handlers :
          \/ PutFind(h) \/ PutUpdate(h) \/ PutSave(h)
          \/ DeleteFind(h) \/ DeleteUnlink(h) \/ DeleteRemove(h)

RaceSpec == RaceInit /\ [][RaceNext]_vars

----------------------------------------------------------------------------
\* The folder derivation on its own: one upload of a file with any type
\* value, and the folder each code path derives for it

FolderInit ==
    /\ variant \in {"server.js", "script.js"}
    /\ gcs = FALSE
    /\ db = [i \in Ids |-> NoReport]
    /\ nextId = 1
    /\ files = {}
    /\ objects = {}
    /\ now \in 0..MaxTime
    /\ ops = 0
    /\ \E type \in AllTypes, file \in OrigNames :
            req = Request("POST", 1, type, file, {}, NoReport)
    /\ res = 0
    /\ io = {}
    /\ fields = [i \in Ids |-> NoFields]
    /\ body = NoBody
    /\ sent = NoReport
    /\ client = PageLoaded
    /\ inflight = [h \in Handlers |-> Idle]

Derived(op, folder) ==
    /\ io' = io \cup {IoOp(op, Path(folder, filename(now, req.file)), TRUE)}
    /\ UNCHANGED <<variant, gcs, db, fields, nextId, files, objects, now, ops, body, sent, req, res, client, inflight>>

DeriveDestination == Derived("destination", destination(req.type))

DeriveUploadToGCS == Derived("uploadToGCS", uploadToGCSFolder(req.type))

DeriveNewTypeDir == Derived("newTypeDir", newTypeDir(req.type))

FolderNext == DeriveDestination \/ DeriveUploadToGCS \/ DeriveNewTypeDir

FolderSpec == FolderInit /\ [][FolderNext]_vars

----------------------------------------------------------------------------
\* The form fields on their own: requests without file and without failing
\* calls, with every field sent, sent empty or left out

FieldTypes == {Road, undefined}
PutTypes == {Other, EmptyString, undefined}

PostBodies ==
    {Body(lat, lng, undefined, undefined, description, urgency) :
        lat \in {<<"2","2">>, <<"n","o">>, undefined},
        lng \in {<<"1","2","0">>, undefined},
        description \in {<<"o","l","d">>, undefined},
        urgency \in {High, undefined}}

\* the client sends lat and lng together (updateReport)
PutBodies ==
    {Body(latlng, latlng, time, status, description, urgency) :
        latlng \in {<<"9">>, undefined},
        time \in {<<"7">>, undefined},
        status \in {Fixed, undefined},
        description \in {<<"n","e","w">>, EmptyString, undefined},
        urgency \in {Low, undefined}}

FieldPost == PostOn(FieldTypes, {NoFile}, PostBodies, {})

FieldPut == PutOn(Ids, PutTypes, {NoFile}, PutBodies, {})

FieldLocalPost == LocalPostOn(FieldTypes, {NoFile}, PostBodies, {})

FieldLocalPut == LocalPutOn(Ids, PutTypes, {NoFile}, PutBodies, {})

FieldNext == FieldPost \/ FieldPut \/ FieldLocalPost \/ FieldLocalPut

FieldSpec == Init /\ [][FieldNext]_vars

----------------------------------------------------------------------------
\* The client: clicks on the map and the new-report form

serverVars == <<variant, gcs, db, fields, nextId, files, objects, now, ops, body, sent, req, res, io, inflight>>

ClientInit == Init /\ variant = "server.js" /\ ~gcs

\* hideLoadingOverlay: fade out and hide 500 ms later, only if both flags
\* are set
hideLoadingOverlay(c) ==
    IF c.mapLoaded /\ c.dataLoaded
    THEN [c EXCEPT !.opacity = "0", !.hideTimers = c.hideTimers + 1]
    ELSE c

checkAllLoaded(c) ==
    IF c.mapLoaded /\ c.dataLoaded THEN hideLoadingOverlay(c) ELSE c

\* map.whenReady callbacks, run when the map gets its first view: the
\* boundary is fetched, mapLoaded is set
whenReady(c) ==
    IF c.view THEN c
    ELSE checkAllLoaded([c EXCEPT !.view = TRUE, !.boundary = "pending",
                                  !.mapLoaded = TRUE])

\* setDefaultView; map.setView makes the map ready
setDefaultView(c) == checkAllLoaded([whenReady(c) EXCEPT !.mapLoaded = TRUE])

\* the 15 s timer that sets neither flag
fallbackTimeoutHideOnly(c) == hideLoadingOverlay(c)

\* the 15 s timer of the DOMContentLoaded handler
fallbackTimeout(c) ==
    hideLoadingOverlay([c EXCEPT !.mapLoaded = TRUE, !.dataLoaded = TRUE])

\* DOMContentLoaded: showLoadingOverlay, initializeMap, fetchReports and
\* the 15 s timer; without navigator.geolocation the default view is set
\* at once
DomContentLoaded ==
    /\ ~client.started
    /\ \E hasGeolocation \in BOOLEAN :
        LET shown == [client EXCEPT !.started = TRUE, !.display = "flex"]
            located == IF hasGeolocation
                       THEN [shown EXCEPT !.geolocation = "pending",
                                          !.locationTimeout = "armed"]
                       ELSE setDefaultView(shown)
        IN  client' = [located EXCEPT !.reports = "pending", !.fallback = "armed"]
    /\ UNCHANGED serverVars

\* getCurrentPosition calls back with a position
GeolocationSuccess ==
    /\ client.geolocation = "pending"
    /\ LET cleared == [client EXCEPT
                        !.geolocation = "success",
                        !.locationTimeout = IF @ = "armed" THEN "cleared" ELSE @]
       IN  client' = checkAllLoaded([whenReady(cleared) EXCEPT !.mapLoaded = TRUE])
    /\ UNCHANGED serverVars

\* getCurrentPosition calls back with an error
GeolocationError ==
    /\ client.geolocation = "pending"
    /\ LET cleared == [client EXCEPT
                        !.geolocation = "error",
                        !.locationTimeout = IF @ = "armed" THEN "cleared" ELSE @]
       IN  client' = setDefaultView(cleared)
    /\ UNCHANGED serverVars

\* the 5 s locationTimeout fires
LocationTimeout ==
    /\ client.locationTimeout = "armed"
    /\ client' = setDefaultView([client EXCEPT !.locationTimeout = "fired"])
    /\ UNCHANGED serverVars

\* loadCampusBoundary: the fetch of the GeoJSON file succeeds
BoundaryLoaded ==
    /\ client.boundary = "pending"
    /\ client' = [client EXCEPT !.boundary = "loaded",
                                !.geoJsonPolygon = CampusPolygon]
    /\ UNCHANGED serverVars

\* loadCampusBoundary: the fetch fails, geoJsonPolygon stays undefined
BoundaryFailed ==
    /\ client.boundary = "pending"
    /\ client' = checkAllLoaded([client EXCEPT !.boundary = "failed",
                                               !.mapLoaded = TRUE])
    /\ UNCHANGED serverVars

\* fetchReports: the reports arrive
ReportsFetched ==
    /\ client.reports = "pending"
    /\ client' = checkAllLoaded([client EXCEPT !.reports = "fetched",
                                               !.dataLoaded = TRUE])
    /\ UNCHANGED serverVars

\* fetchReports: the fetch fails or the answer is no 2xx
ReportsFailed ==
    /\ client.reports = "pending"
    /\ client' = checkAllLoaded([client EXCEPT
                    !.reports = "failed",
                    !.alert = "Failed to load reports. Please try refreshing the page.",
                    !.dataLoaded = TRUE])
    /\ UNCHANGED serverVars

\* the 15 s timer fires
FallbackTimeout ==
    /\ client.fallback = "armed"
    /\ client' = fallbackTimeout([client EXCEPT !.fallback = "fired"])
    /\ UNCHANGED serverVars

\* a 500 ms timer of hideLoadingOverlay fires
OverlayHidden ==
    /\ client.hideTimers > 0
    /\ client' = [client EXCEPT !.display = "none", !.opacity = "1",
                                !.hideTimers = client.hideTimers - 1]
    /\ UNCHANGED serverVars

\* map.on('click'): addReportPopup(e); a map with no view takes no clicks
AddReportPopup ==
    /\ client.view
    /\ \E e \in Points :
        client' = IF ~isPointInPolygon(client.geoJsonPolygon, e.lat, e.lng)
                  THEN [client EXCEPT !.clicked = e,
                          !.alert = "You can only report issues within the campus area!"]
                  ELSE [client EXCEPT !.clicked = e, !.alert = "", !.popup = e]
    /\ UNCHANGED serverVars

\* the form's onsubmit: saveReport(lat, lng, form) with the point the popup
\* was opened at; the form is valid and the POST is sent
SaveReport ==
    /\ client.popup # NoPoint
    /\ client' = [client EXCEPT !.posted = client.popup]
    /\ UNCHANGED serverVars

\* map.closePopup(): the Cancel button, or the POST was answered
ClosePopup ==
    /\ client.popup # NoPoint
    /\ client' = [client EXCEPT !.popup = NoPoint]
    /\ UNCHANGED serverVars

\* Strings that hold URLs are sequences of their parts: an origin such as
\* "https://host", then the segments of the path
API_URL == <<"http://localhost:3002">>
GcsOrigin == "https://storage.googleapis.com"

\* the string stored in report.photo
photoString(photo) ==
    IF photo.kind = "local" THEN <<"/uploads", photo.folder, photo.name>>
    ELSE IF photo.kind = "cloud"
    THEN <<GcsOrigin, "/ncku-campus-safety-uploads", "/uploads", photo.folder, photo.name>>
    ELSE <<>>

\* createPopupContent, editReport: the src of the img element
imgSrc(photo) == API_URL \o photoString(photo)

\* What the browser fetches for a src: the static route /uploads of the
\* server, an object of the bucket, or nothing when the text after the
\* origin is no path of either
fetched(src) ==
    IF Len(src) = 4 /\ src[1] = API_URL[1] /\ src[2] = "/uploads"
    THEN LocalPhoto(Path(src[3], src[4]))
    ELSE IF Len(src) = 5 /\ src[1] = GcsOrigin /\ src[3] = "/uploads"
    THEN CloudPhoto(Path(src[4], src[5]))
    ELSE NoPhoto

\* the page loads
LoadNext ==
    \/ DomContentLoaded
    \/ GeolocationSuccess \/ GeolocationError \/ LocationTimeout
    \/ BoundaryLoaded \/ BoundaryFailed
    \/ ReportsFetched \/ ReportsFailed
    \/ FallbackTimeout \/ OverlayHidden

\* clicks on the map while the map and the boundary load
ClientNext ==
    \/ DomContentLoaded
    \/ GeolocationSuccess \/ GeolocationError \/ LocationTimeout
    \/ BoundaryLoaded \/ BoundaryFailed
    \/ AddReportPopup \/ SaveReport \/ ClosePopup

ClientSpec == ClientInit /\ [][ClientNext]_vars

\* The page loads, and the browser runs what is due: the DOMContentLoaded
\* handler and the timers. What the page waits for from outside (the
\* position, the boundary, the reports) may never come
LoadSpec ==
    /\ ClientInit /\ [][LoadNext]_vars
    /\ WF_vars(DomContentLoaded)
    /\ WF_vars(LocationTimeout)
    /\ WF_vars(FallbackTimeout)
    /\ WF_vars(OverlayHidden)

----------------------------------------------------------------------------
\* Properties

\* the reference names a file on the disk or an object in the bucket
Resolves(photo) ==
    \/ photo.kind = "local" /\ PathOf(photo) \in files
    \/ photo.kind = "cloud" /\ PathOf(photo) \in objects

\* the folder rule as the specification words it, with the folder for
\* anything else left open
FolderOfType(type, anythingElse) ==
    IF type = Road THEN <<"r","o","a","d">>
    ELSE IF type = AccessibleRamp
    THEN <<"a","c","c","e","s","s","i","b","l","e","_","r","a","m","p">>
    ELSE IF type = StreetLight
    THEN <<"s","t","r","e","e","t","_","l","i","g","h","t">>
    ELSE anythingElse

\* C1: every persisted report with a non-empty photo references a file or
\* object that exists in its storage backend, after every sequence of
\* requests, failed ones included.
C1_PhotoAlwaysResolves ==
    \A id \in Ids :
        (db[id].exists /\ HasPhoto(db[id])) => Resolves(db[id].photo)

\* C2: under the local backend, after every completed create or update, the
\* folder of every persisted local photo is the folder derived from the
\* current type of its report.
C2_FolderMatchesType ==
    (~gcs /\ req.op \in {"POST", "PUT"} /\ res \in {200, 201}) =>
        \A id \in Ids :
            (db[id].exists /\ db[id].photo.kind = "local") =>
                db[id].photo.folder = FolderOfType(db[id].type, Other)

\* C3 as amended: the local upload destination and the relocation derive
\* road, accessible_ramp and street_light for the three canonical types and
\* the literal folder Other for every other value.
C3_FolderDerivation ==
    \A e \in io :
        e.op \in {"destination", "newTypeDir"} =>
            e.at.folder = FolderOfType(req.type, Other)

\* C3 as stated: every other value maps to the folder other.
C3_Original ==
    \A e \in io :
        e.op \in {"destination", "newTypeDir"} =>
            e.at.folder = FolderOfType(req.type, <<"o","t","h","e","r">>)

\* C3 witness: both paths derived Other for a canonical name in lower case.
C3_Witness ==
    /\ req.type = roadLower
    /\ \E e \in io : e.op = "destination" /\ e.at.folder = Other
    /\ \E e \in io : e.op = "newTypeDir" /\ e.at.folder = Other

\* C4: for every type the local destination, the cloud upload and the
\* relocation derive the same folder.
C4_SameFolderOnEveryPath ==
    \A e1, e2 \in io : e1.at.folder = e2.at.folder

\* C5: under the local backend a PUT without file that changes the type from
\* Road to Other, on a report whose photo file exists under road, ends with
\* the file under Other and not under road, its name kept, and the persisted
\* photo naming the new place.
C5_RoadToOtherRelocates ==
    [][ ( /\ ~gcs /\ req'.op = "PUT" /\ req'.file = NoFile /\ res' = 200
          /\ req'.type = Other
          /\ db[req'.id].type = Road
          /\ db[req'.id].photo.kind = "local"
          /\ db[req'.id].photo.folder = <<"r","o","a","d">>
          /\ PathOf(db[req'.id].photo) \in files )
        => LET old == PathOf(db[req'.id].photo)
               new == Path(Other, old.name)
           IN  /\ new \in files'
               /\ old \notin files'
               /\ db'[req'.id].photo = LocalPhoto(new) ]_vars

\* C6: a PUT without file whose type is the stored type, or is omitted,
\* leaves the photo reference as it was and moves, copies or deletes no
\* stored file.
C6_SameTypeKeepsPhoto ==
    [][ ( /\ req'.op = "PUT" /\ req'.file = NoFile /\ req'.found.exists
          /\ (req'.type = db[req'.id].type \/ req'.type = undefined) )
        => /\ db'[req'.id].photo = db[req'.id].photo
           /\ files' = files
           /\ objects' = objects ]_vars

\* C7: under the cloud backend a PUT without file leaves the photo reference
\* as it was, whatever the old and the new type, and issues no write or
\* delete to the bucket.
C7_CloudPutKeepsPhoto ==
    (gcs /\ req.op = "PUT" /\ req.file = NoFile /\ req.found.exists) =>
        /\ db[req.id].photo = req.found.photo
        /\ \A e \in io : e.op \notin {"gcsWrite", "gcsDelete"}

\* C7 witness: a cloud photo survived a change of type.
C7_Witness ==
    /\ gcs /\ req.op = "PUT" /\ req.file = NoFile /\ res = 200
    /\ req.found.photo.kind = "cloud"
    /\ Truthy(req.type) /\ req.type # req.found.type
    /\ db[req.id].type = req.type
    /\ db[req.id].photo = req.found.photo

C9_PhotoFailureNeverBlocksDelete ==
    ( /\ req.op = "DELETE" /\ req.found.exists
      /\ "findByIdAndDelete" \notin req.faults )
    => (res = 200 /\ ~db[req.id].exists)

\* C9 witness: the photo deletion failed and the record is gone.
C9_Witness ==
    /\ req.op = "DELETE" /\ res = 200 /\ ~db[req.id].exists
    /\ \E e \in io : ~e.ok

\* C10: DELETE attempts to delete every non-empty photo, in the backend the
\* shape of the reference names, whatever backend is configured.
C10_DeleteBackendFromShape ==
    (req.op = "DELETE" /\ req.found.exists /\ HasPhoto(req.found)) =>
        /\ req.found.photo.kind = "local" =>
                \E e \in io : e.op = "deleteFile" /\ e.at = PathOf(req.found.photo)
        /\ req.found.photo.kind = "cloud" =>
                \E e \in io : e.op = "gcsDelete" /\ e.at = PathOf(req.found.photo)

\* C11: a PUT for an id that matches no report responds 404 and leaves the
\* stored files as they were, also when the request carries a file.
C11_UnknownIdPutTouchesNoFile ==
    [][ ( /\ req'.op = "PUT" /\ isObjectId(req'.id) /\ ~db[req'.id].exists
          /\ "findById" \notin req'.faults )
        => (res' = 404 /\ files' = files /\ objects' = objects) ]_vars

\* C12: GET /reports answers 503, never 500, whenever the database cannot be
\* reached: the 25 s race timed out, Mongoose's buffering timed out, or the
\* driver reported a server-selection or network error.
C12_GetUnreachableIs503 ==
    (req.op = "GET" /\ req.faults # {}) => res = 503

\* C13: POST /reports answers 503, not the generic 500, when the database is
\* unavailable at the moment the report is saved.
C13_PostUnavailableIs503 ==
    (req.op = "POST" /\ "save" \in req.faults) => res = 503

\* C14: for every id that matches no persisted report, be it never created,
\* already deleted or not a well-formed identifier, PUT and DELETE answer 404
\* and leave the collection as it was.
C14_NoSuchIdIs404 ==
    [][ ( /\ req'.op \in {"PUT", "DELETE"} /\ "findById" \notin req'.faults
          /\ (isObjectId(req'.id) => ~db[req'.id].exists) )
        => (res' = 404 /\ db' = db) ]_vars

\* the form field was sent and holds a number
IsNumeric(s) == s # <<>> /\ \A i \in 1..Len(s) : isDigit(s[i])

\* C15: POST /reports persists no report unless type is present, lat and lng
\* are present and numeric, and urgency is present.
C15_PostValidates ==
    (req.op = "POST" /\ db[req.id].exists) =>
        /\ Truthy(req.type)
        /\ IsNumeric(body.lat) /\ IsNumeric(body.lng)
        /\ Truthy(body.urgency)

\* C16: a report created by a POST without file has an empty photo, in the
\* persisted record and in the 201 response, under either backend.
C16_NoFileNoPhoto ==
    (req.op = "POST" /\ req.file = NoFile /\ res = 201) =>
        (~HasPhoto(db[req.id]) /\ ~HasPhoto(sent))

\* C16 witness: under the cloud backend a POST without file stored a report
\* and answered with it.
C16_Witness ==
    /\ gcs /\ req.op = "POST" /\ req.file = NoFile /\ res = 201
    /\ db[req.id].exists /\ sent = db[req.id]
    /\ sent.photo = NoPhoto

\* C17: in a PUT that found its report, each of type, time, status,
\* description and urgency that the request leaves out keeps the value it
\* had.
C17_OmittedFieldsKept ==
    [][ (req'.op = "PUT" /\ req'.found.exists) =>
        LET id == req'.id
        IN  /\ req'.type = undefined => db'[id].type = db[id].type
            /\ body'.time = undefined => fields'[id].time = fields[id].time
            /\ body'.status = undefined => fields'[id].status = fields[id].status
            /\ body'.description = undefined =>
                    fields'[id].description = fields[id].description
            /\ body'.urgency = undefined => fields'[id].urgency = fields[id].urgency
      ]_vars

\* C17 witness: a PUT that sent a status and nothing else answered 200, and
\* the report still has the type, description and urgency it was created
\* with.
C17_Witness ==
    /\ req.op = "PUT" /\ res = 200
    /\ req.type = undefined /\ body = Body(undefined, undefined, undefined, Fixed, undefined, undefined)
    /\ db[req.id].type = Road
    /\ fields[req.id].status = Fixed
    /\ fields[req.id].description = <<"o","l","d">>
    /\ fields[req.id].urgency = High

\* C18: after a PUT answered 200, each of lat, lng, type, time, status,
\* description and urgency that the request supplied, the empty string
\* included, is the persisted value.
C18_SuppliedFieldsOverride ==
    (req.op = "PUT" /\ res = 200) =>
        LET id == req.id
        IN  /\ body.lat # undefined => fields[id].lat = parseFloat(body.lat)
            /\ body.lng # undefined => fields[id].lng = parseFloat(body.lng)
            /\ req.type # undefined => db[id].type = req.type
            /\ body.time # undefined => fields[id].time = newDate(body.time)
            /\ body.status # undefined => fields[id].status = body.status
            /\ body.description # undefined =>
                    fields[id].description = body.description
            /\ body.urgency # undefined => fields[id].urgency = body.urgency

\* C19: a POST or PUT whose file is no image is rejected with a client-fault
\* status, not a server-error status, creates or modifies no report and
\* stores no file.
C19_NonImageIsClientFault ==
    [][ (req'.op \in {"POST", "PUT"} /\ req'.file # NoFile /\ ~fileFilter(req'.file))
        => /\ res' \in 400..499
           /\ db' = db /\ fields' = fields
           /\ files' = files /\ objects' = objects ]_vars

\* C20: in every PUT the photo reference changes in the database only after
\* the file operation behind it succeeded: a changed reference names a file
\* or object that is stored, and when the upload to the bucket or the copy
\* that replaces a failed move fails, the reference keeps its value.
C20_ReferenceAfterFileOperation ==
    [][ (req'.op = "PUT" /\ req'.found.exists) =>
        LET id == req'.id
        IN  /\ db'[id].photo # db[id].photo =>
                \/ db'[id].photo.kind = "local" /\ PathOf(db'[id].photo) \in files'
                \/ db'[id].photo.kind = "cloud" /\ PathOf(db'[id].photo) \in objects'
            /\ (\E e \in io' : e.op \in {"gcsWrite", "copyFile"} /\ ~e.ok) =>
                db'[id].photo = db[id].photo
      ]_vars

\* C20 witness: the upload of a new photo to the bucket failed, the PUT
\* answered 500 and the report still has the photo it had.
C20_Witness ==
    /\ req.op = "PUT" /\ req.found.exists /\ HasPhoto(req.found)
    /\ \E e \in io : e.op = "gcsWrite" /\ ~e.ok
    /\ res = 500
    /\ db[req.id].photo = req.found.photo

\* the campus of ncku_campus_region.geojson, as a region of the grid
InCampus(p) == p.lng \in 1..GridMax /\ p.lat \in 0..2

\* C21: the new-report form is never open, and no POST is ever sent, for a
\* point outside the campus boundary; while the boundary is not loaded, or
\* failed to load, no form is open and every click was refused.
C21_FormOnlyInsideCampus ==
    /\ client.popup # NoPoint => InCampus(client.popup)
    /\ client.posted # NoPoint => InCampus(client.posted)
    /\ client.boundary # "loaded" =>
            /\ client.popup = NoPoint /\ client.posted = NoPoint
            /\ client.clicked # NoPoint => client.alert # ""
    /\ (client.clicked # NoPoint /\ ~InCampus(client.clicked)) => client.alert # ""

\* C21 witness: with the boundary loaded, a click outside the campus was
\* refused while a report from inside had been posted.
C21_Witness ==
    /\ client.boundary = "loaded"
    /\ client.clicked = LatLng(GridMax, 1)
    /\ client.alert # "" /\ client.popup = NoPoint
    /\ client.posted = LatLng(2, GridMax)

\* C22: for every report with a photo, a local path or a cloud URL, the
\* image source the client builds is a URL of that photo.
C22_ImageSourceIsThePhoto ==
    \A id \in Ids : HasPhoto(db[id]) => fetched(imgSrc(db[id].photo)) = db[id].photo

\* C23: a PUT with a file that answers 200 has stored the new file under the
\* folder derived from the type the report has after the update, and the
\* photo names it; a report of type Road updated without a type gets its
\* file under road.
C23_PutFileFolderOfNewType ==
    (req.op = "PUT" /\ req.file # NoFile /\ res = 200) =>
        LET report == db[req.id]
            folder == IF gcs THEN uploadToGCSFolder(report.type)
                      ELSE destination(report.type)
        IN  /\ report.photo.folder = folder
            /\ \E e \in io : /\ e.op \in {"writeFile", "gcsWrite"}
                              /\ e.at = PathOf(report.photo)

\* C24: in a PUT without file that changes the type, under the local backend,
\* when no file exists at the path the photo names, the photo reference
\* stays as it was, no file is created, and the update answers 200 with the
\* new type stored.
C24_MissingFileKeepsReference ==
    [][ ( /\ ops' = ops + 1
          /\ ~gcs /\ req'.op = "PUT" /\ req'.file = NoFile
          /\ req'.found.exists /\ req'.faults = {}
          /\ HasPhoto(db[req'.id])
          /\ PathOf(db[req'.id].photo) \notin files
          /\ Truthy(req'.type) /\ req'.type # db[req'.id].type )
        => /\ res' = 200
           /\ db'[req'.id].photo = db[req'.id].photo
           /\ files' = files
           /\ db'[req'.id].type = req'.type ]_vars

\* C24 witness: the local-only server took the relocation branch for a photo
\* whose file was gone, and kept the reference.
C24_Witness ==
    /\ variant = "script.js" /\ req.op = "PUT" /\ req.file = NoFile /\ res = 200
    /\ req.found.type = Road /\ req.type = Other
    /\ HasPhoto(req.found) /\ PathOf(req.found.photo) \notin files
    /\ db[req.id].photo = req.found.photo
    /\ db[req.id].type = Other
    /\ io = {}

C26_LastWriteWinsWholeDocument ==
    \A h \in Handlers, g \in Handlers :
        LET first == inflight[h]
            last == inflight[g]
        IN  ( /\ first.op = "PUT" /\ last.op = "PUT" /\ first.id = last.id
              /\ first.doc.exists /\ last.doc.exists
              /\ first.pc = "done" /\ last.pc = "done"
              /\ first.findAt < first.saveAt /\ last.findAt < first.saveAt
              /\ first.saveAt < last.saveAt )
            => /\ first.status = 200 /\ last.status = 200
               /\ db[last.id] = last.report
               /\ fields[last.id] = last.reportFields

\* C27: on the local backend, once a PUT with a file has responded 200 the
\* file the new photo reference names is on the disk, also when the new path
\* is the path of the previous photo
C27_PutFileIsOnDisk ==
    ( /\ ~gcs /\ req.op = "PUT" /\ req.file # NoFile /\ res = 200 )
    => /\ db[req.id].photo.kind = "local"
       /\ PathOf(db[req.id].photo) \in files

\* C28: a POST with a file that responds 500 because saving the report
\* failed leaves no file of that request in storage: what it wrote is
\* gone, or is the photo of a stored report
C28_FailedPostLeavesNoFile ==
    ( /\ req.op = "POST" /\ req.file # NoFile /\ res = 500
      /\ "save" \in req.faults )
    => \A e \in io :
          /\ (e.op = "writeFile" /\ e.at \in files) =>
                \E i \in Ids : db[i].exists /\ db[i].photo = LocalPhoto(e.at)
          /\ (e.op = "gcsWrite" /\ e.at \in objects) =>
                \E i \in Ids : db[i].exists /\ db[i].photo = CloudPhoto(e.at)

\* C29: on the local backend, a DELETE and a type-changing PUT without a
\* file on the same report run between each other's awaits; once the
\* DELETE has responded 200, no copy of the report's photo file is left
\* below uploads/ that no stored report references, and no stored report
\* references the photo
C29_DeleteLeavesNoCopy ==
    \A h \in Handlers, g \in Handlers :
        LET del == inflight[h]
            put == inflight[g]
        IN  ( /\ del.op = "DELETE" /\ del.pc = "done" /\ del.status = 200
              /\ HasPhoto(del.doc)
              /\ put.op = "PUT" /\ put.id = del.id /\ put.doc.exists
              /\ typeChanged(put.doc.type, put.type) /\ Truthy(put.type) )
            => /\ \A p \in files :
                    p.name = del.doc.photo.name =>
                        \E i \in Ids : db[i].exists /\ db[i].photo = LocalPhoto(p)
               /\ ~db[del.id].exists

\* C30: after the page loads the loading overlay is eventually hidden,
\* whether the reports, the position and the boundary arrive, fail or never
\* come, and it is never hidden while mapLoaded or dataLoaded is false
C30_OverlayEventuallyHidden ==
    /\ [](client.display = "none" => (client.mapLoaded /\ client.dataLoaded))
    /\ [](client.opacity = "0" => (client.mapLoaded /\ client.dataLoaded))
    /\ <>(client.display = "none")

C30_Witness ==
    /\ client.display = "none"
    /\ client.fallback = "fired"
    /\ client.reports = "pending"
    /\ client.geolocation = "pending"
    /\ client.boundary = "pending"

====
